---- MODULE Spec2Model ----
(***************************************************************************)
(* noosh: the read - tokenize - dispatch - execute loop of src/main.c and  *)
(* src/noosh.c, with the fork / execvp / waitpid protocol of noosh_launch. *)
(*                                                                         *)
(* Characters are one-character strings, a Line is a sequence of           *)
(* characters, a token is a non-empty sequence of characters and the token *)
(* array is a sequence of tokens closed by NULL.  The kernel keeps the     *)
(* working directory as a sequence of directory names.                     *)
(***************************************************************************)
EXTENDS Integers, Sequences, FiniteSets

VARIABLES
    entry,      \* which translation unit runs: "main" (main.c) or "noosh" (noosh.c)
    pc,         \* position of the shell process in noosh_loop / noosh_launch
    line,       \* char * line of noosh_loop
    args,       \* char ** args of noosh_loop (NULL terminated)
    status,     \* int status of noosh_loop
    cwd,        \* working directory of the shell process
    eof,        \* standard input has reached end-of-stream
    procs,      \* child processes that exist (forked and not yet reaped)
    pid,        \* pid_t pid of noosh_launch
    wstatus,    \* int status of noosh_launch, as filled in by waitpid
    out,        \* what the shell has written to standard output
    err,        \* what has been written to standard error
    heap,       \* number of live malloc'ed buffers of the shell process
    exitCode,   \* exit code of the shell process, EXIT_NONE while it runs
    iter,       \* number of loop iterations started
    disp,       \* what noosh_execute did in the current iteration
    waits,      \* waitpid calls that have returned in the current noosh_launch
    sawChar,    \* getchar has delivered at least one character
    lastcd,     \* the last chdir of noosh_cd that succeeded: from where, with what
    lineSt,     \* allocation state of the buffer line points to
    argsSt,     \* allocation state of the array args points to
    config,     \* struct ColorConfig config of noosh_loop (noosh.c)
    input,      \* the whole of standard input, when it is fixed in advance
    rpos,       \* how far into input the shell has read
    rl,         \* bufsize and position of noosh_read_line, with its last write
    tk          \* bufsize and position of noosh_split_line, with its last write

vars == <<entry, pc, line, args, status, cwd, eof, procs, pid, wstatus,
          out, err, heap, exitCode, iter, disp, waits, sawChar, lastcd,
          lineSt, argsSt, config, input, rpos, rl, tk>>

----------------------------------------------------------------------------
(* Bounds of the model *)

MaxIter == 3        \* loop iterations explored
MaxStops == 2       \* stop / continue cycles of one child

----------------------------------------------------------------------------
(* Characters and strings *)

SP == " "
TAB == "\t"
CR == "\r"
NL == "\n"
BEL == "\\a"
SLASH == "/"
DOT == "."

NULL == << >>

EXIT_NONE == -1
EXIT_SUCCESS == 0
EXIT_FAILURE == 1

s_cd == <<"c", "d">>
s_pwd == <<"p", "w", "d">>
s_help == <<"h", "e", "l", "p">>
s_exit == <<"e", "x", "i", "t">>
s_ls == <<"l", "s">>
s_nope == <<"n", "o">>
s_Exit == <<"E", "x", "i", "t">>

(* a delimiter set that forgets the space *)
NOOSH_TOK_DELIM_no_space == {TAB, CR, NL, BEL}

(* a delimiter set that forgets the bell *)
NOOSH_TOK_DELIM_no_bell == {SP, TAB, CR, NL}

NOOSH_TOK_DELIM == {SP, TAB, CR, NL, BEL}

builtin_str == <<s_cd, s_pwd, s_help, s_exit>>

builtin_func == <<"noosh_cd", "noosh_pwd", "noosh_help", "noosh_exit">>

noosh_num_builtins == Len(builtin_str)

(* The lines a user may type (without the line terminator). *)
InputLines ==
    { << >>,
      <<SP, TAB, CR, BEL>>,
      s_exit,
      <<TAB>> \o s_exit \o <<SP>> \o s_ls,
      s_cd,
      s_cd \o <<SP>> \o <<"a">>,
      s_cd \o <<SP>> \o <<"b">>,
      s_cd \o <<SP>> \o <<SLASH, "a", SLASH, "b">>,
      s_cd \o <<SP>> \o <<DOT, DOT>>,
      s_cd \o <<SP>> \o <<"x">>,
      s_pwd,
      s_pwd \o <<SP>> \o <<"x">>,
      s_help,
      s_ls,
      s_ls \o <<SP, SP>> \o s_exit \o <<SP>>,
      s_nope,
      s_Exit }

(* The programs execvp finds on the search path. *)
Programs == {s_ls}

(* The directories of the file system, as absolute paths. *)
Dirs == { << >>, << <<"a">> >>, << <<"a">>, <<"b">> >> }

----------------------------------------------------------------------------
(* noosh_read_line: take characters until a newline or the end of the      *)
(* stream; the newline is consumed and not stored.                         *)

RECURSIVE read_chars(_, _, _)
read_chars(stream, position, buffer) ==
    IF position > Len(stream)
    THEN [line |-> buffer, eof |-> TRUE]
    ELSE IF stream[position] = NL
         THEN [line |-> buffer, eof |-> FALSE]
         ELSE read_chars(stream, position + 1, Append(buffer, stream[position]))

noosh_read_line(stream) == read_chars(stream, 1, << >>)

----------------------------------------------------------------------------
(* strtok and noosh_split_line *)

RECURSIVE skip_delims(_, _)
skip_delims(s, i) ==
    IF i <= Len(s) /\ s[i] \in NOOSH_TOK_DELIM THEN skip_delims(s, i + 1) ELSE i

RECURSIVE scan_token(_, _)
scan_token(s, i) ==
    IF i <= Len(s) /\ s[i] \notin NOOSH_TOK_DELIM THEN scan_token(s, i + 1) ELSE i

(* a strtok that does not skip the delimiters in front of a token *)
strtok_no_skip(s, i) ==
    LET e == scan_token(s, i)
    IN  IF i > Len(s)
        THEN [token |-> NULL, next |-> i]
        ELSE [token |-> SubSeq(s, i, e - 1), next |-> e + 1]

(* One strtok call resuming at index i: the next token and where the call  *)
(* after it resumes, or NULL.                                              *)
strtok(s, i) ==
    LET b == skip_delims(s, i)
        e == scan_token(s, b)
    IN  IF b > Len(s)
        THEN [token |-> NULL, next |-> b]
        ELSE [token |-> SubSeq(s, b, e - 1), next |-> e + 1]

RECURSIVE split_from(_, _, _)
split_from(s, i, tokens) ==
    LET t == strtok(s, i)
    IN  IF t.token = NULL
        THEN Append(tokens, NULL)
        ELSE split_from(s, t.next, Append(tokens, t.token))

noosh_split_line(s) == split_from(s, 1, << >>)

----------------------------------------------------------------------------
(* chdir and getcwd *)

RECURSIVE path_components(_, _, _)
path_components(p, i, cur) ==
    IF i > Len(p)
    THEN IF cur = << >> THEN << >> ELSE <<cur>>
    ELSE IF p[i] = SLASH
         THEN (IF cur = << >> THEN << >> ELSE <<cur>>) \o path_components(p, i + 1, << >>)
         ELSE path_components(p, i + 1, Append(cur, p[i]))

RECURSIVE walk(_, _)
walk(dir, comps) ==
    IF dir \notin Dirs
    THEN [ok |-> FALSE, dir |-> dir]
    ELSE IF comps = << >>
         THEN [ok |-> TRUE, dir |-> dir]
         ELSE LET c == Head(comps)
              IN  IF c = <<DOT>>
                  THEN walk(dir, Tail(comps))
                  ELSE IF c = <<DOT, DOT>>
                       THEN walk(IF dir = << >> THEN dir
                                 ELSE SubSeq(dir, 1, Len(dir) - 1), Tail(comps))
                       ELSE walk(Append(dir, c), Tail(comps))

(* a chdir that resolves every path from the root *)
chdir_from_root(w, path) ==
    IF path = << >>
    THEN [ok |-> FALSE, dir |-> w]
    ELSE LET r == walk(<< >>, path_components(path, 1, << >>))
         IN  IF r.ok THEN r ELSE [ok |-> FALSE, dir |-> w]

(* chdir(path) called with working directory w *)
chdir(w, path) ==
    IF path = << >>
    THEN [ok |-> FALSE, dir |-> w]
    ELSE LET r == walk(IF path[1] = SLASH THEN << >> ELSE w,
                       path_components(path, 1, << >>))
         IN  IF r.ok THEN r ELSE [ok |-> FALSE, dir |-> w]

RECURSIVE getcwd(_)
getcwd(w) ==
    IF w = << >>
    THEN <<SLASH>>
    ELSE IF Len(w) = 1
         THEN <<SLASH>> \o w[1]
         ELSE getcwd(SubSeq(w, 1, Len(w) - 1)) \o <<SLASH>> \o w[Len(w)]

----------------------------------------------------------------------------
(* Records written to the output streams *)

Rec(k, v) == [k |-> k, v |-> v]

NoDisp == [kind |-> "none", fn |-> "", argv |-> << >>]

NoCd == [set |-> FALSE, w |-> << >>, arg |-> << >>]

NoStatus == [kind |-> "none", val |-> 0]

(* struct ColorConfig before read_config has filled it in *)
NoConfig == [username_color |-> 0, cwd_color |-> 0]

(* struct ColorConfig config = {32, 35}; *)
DefaultConfig == [username_color |-> 32, cwd_color |-> 35]

(* a growable buffer that has not been allocated *)
NoBuf == [bufsize |-> 0, position |-> 0, widx |-> 0, wcap |-> 0]

Init ==
    /\ entry \in {"main", "noosh"}
    /\ pc = IF entry = "main" THEN "prompt" ELSE "config"
    /\ line = << >>
    /\ args = << >>
    /\ status = 1
    /\ cwd \in Dirs
    /\ eof = FALSE
    /\ procs = {}
    /\ pid = 0
    /\ wstatus = NoStatus
    /\ out = << >>
    /\ err = << >>
    /\ heap = 0
    /\ exitCode = EXIT_NONE
    /\ iter = 0
    /\ disp = NoDisp
    /\ waits = 0
    /\ sawChar = FALSE
    /\ lastcd = NoCd
    /\ lineSt = "none"
    /\ argsSt = "none"
    /\ config = NoConfig
    /\ input = << >>
    /\ rpos = 1
    /\ rl = NoBuf
    /\ tk = NoBuf


----------------------------------------------------------------------------
(* Process exit and the helpers shared by the two translation units *)

(* get_cwd of noosh.c: malloc, getcwd; the buffer is handed to the caller. *)
(* mallocOk and getcwdOk are the outcomes of the two library calls.        *)
get_cwd(mallocOk, getcwdOk, w) ==
    IF ~mallocOk
    THEN [fatal |-> TRUE, buf |-> << >>, live |-> 0, msg |-> <<Rec("alloc", << >>)>>]
    ELSE IF ~getcwdOk
         THEN [fatal |-> TRUE, buf |-> << >>, live |-> 0, msg |-> <<Rec("perror", s_pwd)>>]
         ELSE [fatal |-> FALSE, buf |-> getcwd(w), live |-> 1, msg |-> << >>]

(* noosh_pwd: main.c allocates, prints and frees; noosh.c prints the       *)
(* buffer get_cwd returned and never frees it.                             *)
noosh_pwd(e, mallocOk, getcwdOk, w) ==
    LET g == get_cwd(mallocOk, getcwdOk, w)
    IN  [fatal |-> g.fatal,
         print |-> IF g.fatal THEN << >> ELSE <<Rec("pwd", g.buf)>>,
         msg   |-> g.msg,
         live  |-> IF e = "main" THEN 0 ELSE g.live,
         ret   |-> 1]

(* a cd that goes to the root directory when its argument is missing *)
noosh_cd_home(a, w) ==
    IF a[2] = NULL
    THEN [dir |-> << >>, changed |-> TRUE, msg |-> << >>, ret |-> 1]
    ELSE LET r == chdir(w, a[2])
         IN  IF ~r.ok
             THEN [dir |-> w, changed |-> FALSE, msg |-> <<Rec("perror", s_cd)>>,
                   ret |-> 1]
             ELSE [dir |-> r.dir, changed |-> TRUE, msg |-> << >>, ret |-> 1]

(* noosh_cd *)
noosh_cd(a, w) ==
    IF a[2] = NULL
    THEN [dir |-> w, changed |-> FALSE, msg |-> <<Rec("usage", s_cd)>>, ret |-> 1]
    ELSE LET r == chdir(w, a[2])
         IN  IF ~r.ok
             THEN [dir |-> w, changed |-> FALSE, msg |-> <<Rec("perror", s_cd)>>,
                   ret |-> 1]
             ELSE [dir |-> r.dir, changed |-> TRUE, msg |-> << >>, ret |-> 1]

(* noosh_help: the banner, then every registered name in registry order *)
noosh_help == [print |-> <<Rec("help", builtin_str)>>, ret |-> 1]

(* an exit handler that returns "continue", as the other handlers do *)
noosh_exit_returns_1 == noosh_help.ret

(* noosh_exit *)
noosh_exit == 0

(* The linear search of noosh_execute: index of the first registry entry   *)
(* equal to the name, 0 when there is none.                                *)
RECURSIVE lookup(_, _)
lookup(name, i) ==
    IF i > noosh_num_builtins
    THEN 0
    ELSE IF name = builtin_str[i] THEN i ELSE lookup(name, i + 1)

(* a dispatcher that also looks for a builtin name in token 1 *)
resolve_any_position(a) ==
    IF a[1] = NULL THEN "empty"
    ELSE IF lookup(a[1], 1) # 0 THEN builtin_func[lookup(a[1], 1)]
    ELSE IF a[2] # NULL /\ lookup(a[2], 1) # 0 THEN builtin_func[lookup(a[2], 1)]
    ELSE "launch"

(* What noosh_execute does with the token array a *)
resolve(a) == IF a[1] = NULL THEN "empty"
              ELSE IF lookup(a[1], 1) = 0 THEN "launch"
              ELSE builtin_func[lookup(a[1], 1)]

WIFEXITED(s) == s.kind = "exited"

WIFSIGNALED(s) == s.kind = "signaled"

(* a single waitpid without the loop around it *)
wait_once(s) == FALSE

(* a loop that also ends when the child is reported stopped *)
wait_until_stopped(s) == ~WIFEXITED(s) /\ ~WIFSIGNALED(s) /\ s.kind # "stopped"

(* the condition of the do-while around waitpid *)
wait_again(s) == ~WIFEXITED(s) /\ ~WIFSIGNALED(s)

----------------------------------------------------------------------------
(* read_config of noosh.c *)

s_username_color == <<"u", "s", "e", "r", "n", "a", "m", "e", "_", "c", "o", "l", "o", "r">>

s_cwd_color == <<"c", "w", "d", "_", "c", "o", "l", "o", "r">>

EXIT_SEGV == 139

Digits == {"0", "1", "2", "3", "4", "5", "6", "7", "8", "9"}

DigitVal(c) ==
    CASE c = "0" -> 0 [] c = "1" -> 1 [] c = "2" -> 2 [] c = "3" -> 3 [] c = "4" -> 4
      [] c = "5" -> 5 [] c = "6" -> 6 [] c = "7" -> 7 [] c = "8" -> 8 [] c = "9" -> 9

(* atoi: the value of the leading decimal digits *)
RECURSIVE atoi_from(_, _, _)
atoi_from(s, i, acc) ==
    IF i <= Len(s) /\ s[i] \in Digits
    THEN atoi_from(s, i + 1, acc * 10 + DigitVal(s[i]))
    ELSE acc

atoi(s) == atoi_from(s, 1, 0)

RECURSIVE skip_eq(_, _)
skip_eq(s, i) == IF i <= Len(s) /\ s[i] = "=" THEN skip_eq(s, i + 1) ELSE i

RECURSIVE scan_eq(_, _)
scan_eq(s, i) == IF i <= Len(s) /\ s[i] # "=" THEN scan_eq(s, i + 1) ELSE i

(* strtok(.., "=") resuming at index i *)
strtok_eq(s, i) ==
    LET b == skip_eq(s, i)
        e == scan_eq(s, b)
    IN  IF b > Len(s)
        THEN [token |-> NULL, next |-> b]
        ELSE [token |-> SubSeq(s, b, e - 1), next |-> e + 1]

(* The body of while (fgets(line, ...)) for one line.  atoi(NULL), when   *)
(* the line holds no second token, is undefined: ub is set and the value  *)
(* is whatever atoi happened to return, 0 here.                           *)
config_line(c, l) ==
    LET t == strtok_eq(l, 1)
        v == strtok_eq(l, t.next)
        value == IF v.token = NULL THEN 0 ELSE atoi(v.token)
    IN  IF t.token = NULL
        THEN [config |-> c, ub |-> FALSE]
        ELSE [config |-> IF t.token = s_username_color
                         THEN [c EXCEPT !.username_color = value]
                         ELSE IF t.token = s_cwd_color
                              THEN [c EXCEPT !.cwd_color = value]
                              ELSE c,
              ub |-> v.token = NULL]

RECURSIVE config_lines(_, _, _)
config_lines(c, ls, ub) ==
    IF ls = << >>
    THEN [config |-> c, ub |-> ub]
    ELSE LET r == config_line(c, Head(ls))
         IN  config_lines(r.config, Tail(ls), ub \/ r.ub)

(* read_config on an environment: whether readlink works, whether the    *)
(* file opens, and the lines fgets delivers.                              *)
read_config(e) ==
    IF ~e.readlink
    THEN [config |-> DefaultConfig, ub |-> FALSE,
          msg |-> <<Rec("perror", <<"r", "e", "a", "d", "l", "i", "n", "k">>)>>]
    ELSE IF ~e.exists
         THEN [config |-> DefaultConfig, ub |-> FALSE,
               msg |-> <<Rec("perror", <<"f", "o", "p", "e", "n">>)>>]
         ELSE LET r == config_lines(DefaultConfig, e.lines, FALSE)
              IN  [config |-> r.config, ub |-> r.ub, msg |-> << >>]

(* The configuration environments explored *)
ConfigEnvs ==
    { [readlink |-> FALSE, exists |-> FALSE, lines |-> << >>],
      [readlink |-> TRUE, exists |-> FALSE, lines |-> << >>],
      [readlink |-> TRUE, exists |-> TRUE,
       lines |-> << s_username_color \o <<"=", "3", "1", NL>>,
                    s_cwd_color \o <<"=", "3", "4", NL>> >>],
      [readlink |-> TRUE, exists |-> TRUE,
       lines |-> << s_cwd_color \o <<NL>> >>] }

----------------------------------------------------------------------------
(* The loop *)

Running == exitCode = EXIT_NONE

(* struct ColorConfig config = read_config("noosh_config.txt"); an        *)
(* undefined atoi(NULL) either kills the process or returns a value.       *)
ReadConfig ==
    /\ pc = "config" /\ Running
    /\ \E e \in ConfigEnvs, crash \in BOOLEAN :
         LET r == read_config(e)
         IN  /\ err' = err \o r.msg
             /\ IF r.ub /\ crash
                THEN /\ pc' = "exited" /\ exitCode' = EXIT_SEGV
                     /\ config' = config
                ELSE /\ pc' = "prompt" /\ exitCode' = exitCode
                     /\ config' = r.config
    /\ UNCHANGED <<sawChar, lastcd, lineSt, argsSt, input, rpos, rl, tk,
                   entry, line, args, status, cwd, eof, procs, pid, wstatus,
                   out, heap, iter, disp, waits>>

(* do { printf(prompt) ...: main.c prints "> "; noosh.c first calls get_cwd *)
Prompt ==
    /\ pc = "prompt" /\ Running /\ iter < MaxIter
    /\ iter' = iter + 1
    /\ disp' = NoDisp
    /\ waits' = 0
    /\ IF entry = "main"
       THEN /\ out' = Append(out, Rec("prompt", <<">", SP>>))
            /\ pc' = "read"
            /\ UNCHANGED <<err, heap, exitCode>>
       ELSE \E mallocOk \in BOOLEAN, getcwdOk \in BOOLEAN :
              LET g == get_cwd(mallocOk, getcwdOk, cwd)
              IN  /\ err' = err \o g.msg
                  /\ heap' = heap + g.live
                  /\ IF g.fatal
                     THEN /\ pc' = "exited" /\ exitCode' = EXIT_FAILURE
                          /\ out' = out
                     ELSE /\ pc' = "read" /\ exitCode' = exitCode
                          /\ out' = Append(out, Rec("prompt", g.buf))
    /\ UNCHANGED <<sawChar, lastcd, lineSt, argsSt, config, input, rpos, rl, tk,
                   entry, line, args, status, cwd, eof, procs, pid, wstatus>>

(* The streams standard input can deliver to one noosh_read_line call: a   *)
(* typed line closed by a newline, or characters followed by the end of    *)
(* the stream; once the end has been seen it stays.                        *)
Streams ==
    IF eof THEN { << >> }
    ELSE { Append(l, NL) : l \in InputLines } \cup InputLines

(* line = noosh_read_line() *)
ReadLine ==
    /\ pc = "read" /\ Running
    /\ \E mallocOk \in BOOLEAN :
         IF ~mallocOk
         THEN /\ err' = Append(err, Rec("alloc", << >>))
              /\ pc' = "exited" /\ exitCode' = EXIT_FAILURE
              /\ UNCHANGED <<line, eof, heap, sawChar, lineSt>>
         ELSE \E stream \in Streams :
                LET r == noosh_read_line(stream)
                IN  /\ line' = r.line
                    /\ eof' = r.eof
                    /\ sawChar' = (sawChar \/ stream # << >>)
                    /\ heap' = heap + 1
                    /\ lineSt' = "live"
                    /\ pc' = "split"
                    /\ UNCHANGED <<err, exitCode>>
    /\ UNCHANGED <<lastcd, argsSt, config, input, rpos, rl, tk,
                   entry, args, status, cwd, procs, pid, wstatus, out,
                   iter, disp, waits>>

(* args = noosh_split_line(line) *)
SplitLine ==
    /\ pc = "split" /\ Running
    /\ \E mallocOk \in BOOLEAN :
         IF ~mallocOk
         THEN /\ err' = Append(err, Rec("alloc", << >>))
              /\ pc' = "exited" /\ exitCode' = EXIT_FAILURE
              /\ UNCHANGED <<args, heap, argsSt>>
         ELSE /\ args' = noosh_split_line(line)
              /\ argsSt' = "live"
              /\ heap' = heap + 1
              /\ pc' = "execute"
              /\ UNCHANGED <<err, exitCode>>
    /\ UNCHANGED <<sawChar, lastcd, lineSt, config, input, rpos, rl, tk,
                   entry, line, status, cwd, eof, procs, pid, wstatus, out,
                   iter, disp, waits>>


----------------------------------------------------------------------------
(* noosh_execute, one action for each way it resolves the token array *)

Dispatched(kind, fn) == [kind |-> kind, fn |-> fn, argv |-> args]

(* args[0] == NULL: an empty command was entered *)
ExecuteEmpty ==
    /\ pc = "execute" /\ Running
    /\ resolve(args) = "empty"
    /\ status' = 1
    /\ disp' = Dispatched("empty", "")
    /\ pc' = "free"
    /\ UNCHANGED <<sawChar, lastcd, lineSt, argsSt, config, input, rpos, rl, tk,
                   entry, line, args, cwd, eof, procs, pid, wstatus, out, err,
                   heap, exitCode, iter, waits>>

ExecuteCd ==
    /\ pc = "execute" /\ Running
    /\ resolve(args) = "noosh_cd"
    /\ LET r == noosh_cd(args, cwd)
       IN  /\ cwd' = r.dir
           /\ err' = err \o r.msg
           /\ status' = r.ret
           /\ lastcd' = IF r.changed
                        THEN [set |-> TRUE, w |-> cwd, arg |-> args[2]]
                        ELSE lastcd
    /\ disp' = Dispatched("builtin", "noosh_cd")
    /\ pc' = "free"
    /\ UNCHANGED <<sawChar, lineSt, argsSt, config, input, rpos, rl, tk,
                   entry, line, args, eof, procs, pid, wstatus, out, heap,
                   exitCode, iter, waits>>

ExecutePwd ==
    /\ pc = "execute" /\ Running
    /\ resolve(args) = "noosh_pwd"
    /\ disp' = Dispatched("builtin", "noosh_pwd")
    /\ \E mallocOk \in BOOLEAN, getcwdOk \in BOOLEAN :
         LET r == noosh_pwd(entry, mallocOk, getcwdOk, cwd)
         IN  /\ out' = out \o r.print
             /\ err' = err \o r.msg
             /\ heap' = heap + r.live
             /\ IF r.fatal
                THEN /\ pc' = "exited" /\ exitCode' = EXIT_FAILURE
                     /\ status' = status
                ELSE /\ pc' = "free" /\ exitCode' = exitCode
                     /\ status' = r.ret
    /\ UNCHANGED <<sawChar, lastcd, lineSt, argsSt, config, input, rpos, rl, tk,
                   entry, line, args, cwd, eof, procs, pid, wstatus, iter, waits>>

ExecuteHelp ==
    /\ pc = "execute" /\ Running
    /\ resolve(args) = "noosh_help"
    /\ out' = out \o noosh_help.print
    /\ status' = noosh_help.ret
    /\ disp' = Dispatched("builtin", "noosh_help")
    /\ pc' = "free"
    /\ UNCHANGED <<sawChar, lastcd, lineSt, argsSt, config, input, rpos, rl, tk,
                   entry, line, args, cwd, eof, procs, pid, wstatus, err, heap,
                   exitCode, iter, waits>>

ExecuteExit ==
    /\ pc = "execute" /\ Running
    /\ resolve(args) = "noosh_exit"
    /\ status' = noosh_exit
    /\ disp' = Dispatched("builtin", "noosh_exit")
    /\ pc' = "free"
    /\ UNCHANGED <<sawChar, lastcd, lineSt, argsSt, config, input, rpos, rl, tk,
                   entry, line, args, cwd, eof, procs, pid, wstatus, out, err,
                   heap, exitCode, iter, waits>>

----------------------------------------------------------------------------
(* noosh_launch *)

(* a child that is given the program name alone as argument vector *)
forked_child_argv0_only(p, a, w) ==
    [pid |-> p, at |-> "exec", st |-> "running", code |-> 0, argv |-> <<a[1], NULL>>,
     cwd |-> w, reported |-> FALSE, stops |-> 0]

(* a child that starts in the root directory *)
forked_child_in_root(p, a, w) ==
    [pid |-> p, at |-> "exec", st |-> "running", code |-> 0, argv |-> a,
     cwd |-> << >>, reported |-> FALSE, stops |-> 0]

(* The child right after fork: a copy of the shell at the pid == 0 branch, *)
(* about to call execvp(args[0], args) in the shell's working directory.   *)
forked_child(p, a, w) ==
    [pid |-> p, at |-> "exec", st |-> "running", code |-> 0, argv |-> a,
     cwd |-> w, reported |-> FALSE, stops |-> 0]

(* a fork failure that makes the launcher return "terminate" *)
fork_failed_returns_0 == [msg |-> <<Rec("perror", <<"f", "o", "r", "k">>)>>, ret |-> 0]

(* pid < 0: perror("noosh"), nothing to wait for, return 1 *)
fork_failed == [msg |-> <<Rec("perror", <<"f", "o", "r", "k">>)>>, ret |-> 1]

(* pid = fork(): on failure perror and return 1, otherwise go and wait *)
Launch ==
    /\ pc = "execute" /\ Running
    /\ resolve(args) = "launch"
    /\ disp' = Dispatched("launch", "noosh_launch")
    /\ \E forkOk \in BOOLEAN :
         IF forkOk
         THEN /\ procs' = procs \cup {forked_child(iter, args, cwd)}
              /\ pid' = iter
              /\ pc' = "wait"
              /\ UNCHANGED <<err, status>>
         ELSE /\ err' = err \o fork_failed.msg
              /\ pid' = -1
              /\ status' = fork_failed.ret
              /\ pc' = "free"
              /\ UNCHANGED procs
    /\ UNCHANGED <<sawChar, lastcd, lineSt, argsSt, config, input, rpos, rl, tk,
                   entry, line, args, cwd, eof, wstatus, out, heap, exitCode,
                   iter, waits>>

(* What waitpid(pid, &status, WUNTRACED) can report about a child *)
Notifies(c) == c.st \in {"exited", "signaled"} \/ (c.st = "stopped" /\ ~c.reported)

wait_status(c) == [kind |-> c.st, val |-> c.code]

(* One turn of do { waitpid } while (!WIFEXITED && !WIFSIGNALED): waitpid  *)
(* returns with a terminated child (which it reaps) or a stopped one.      *)
WaitPid ==
    /\ pc = "wait" /\ Running
    /\ \E c \in procs :
         /\ c.pid = pid
         /\ Notifies(c)
         /\ wstatus' = wait_status(c)
         /\ procs' = IF c.st = "stopped"
                     THEN (procs \ {c}) \cup {[c EXCEPT !.reported = TRUE]}
                     ELSE procs \ {c}
    /\ waits' = waits + 1
    /\ IF wait_again(wstatus')
       THEN pc' = "wait" /\ status' = status
       ELSE pc' = "free" /\ status' = 1
    /\ UNCHANGED <<sawChar, lastcd, lineSt, argsSt, config, input, rpos, rl, tk,
                   entry, line, args, cwd, eof, pid, out, err, heap, exitCode,
                   iter, disp>>

(* a child that does not exit after the failed execvp and returns into   *)
(* the loop                                                              *)
child_exec_failed_returns(c) == [c EXCEPT !.at = "returned"]

(* In the child: execvp failed, so perror("noosh"); exit(EXIT_FAILURE). *)
child_exec_failed(c) == [c EXCEPT !.st = "exited", !.code = EXIT_FAILURE]

(* In the child: execvp(args[0], args) *)
ChildExec ==
    /\ \E c \in procs :
         /\ c.at = "exec" /\ c.st = "running"
         /\ IF c.argv[1] \in Programs
            THEN /\ procs' = (procs \ {c}) \cup {[c EXCEPT !.at = "program"]}
                 /\ err' = err
            ELSE /\ procs' = (procs \ {c}) \cup {child_exec_failed(c)}
                 /\ err' = Append(err, Rec("perror", c.argv[1]))
    /\ UNCHANGED <<sawChar, lastcd, lineSt, argsSt, config, input, rpos, rl, tk,
                   entry, pc, line, args, status, cwd, eof, pid, wstatus, out,
                   heap, exitCode, iter, disp, waits>>

(* The launched program changes its own working directory, to the root *)
ChildChdir ==
    /\ \E c \in procs :
         /\ c.at = "program" /\ c.st = "running"
         /\ c.cwd # << >>
         /\ procs' = (procs \ {c}) \cup {[c EXCEPT !.cwd = << >>]}
    /\ UNCHANGED <<sawChar, lastcd, lineSt, argsSt, config, input, rpos, rl, tk,
                   entry, pc, line, args, status, cwd, eof, pid, wstatus, out,
                   err, heap, exitCode, iter, disp, waits>>

(* The launched program is stopped by a signal *)
ChildStop ==
    /\ \E c \in procs :
         /\ c.at = "program" /\ c.st = "running" /\ c.stops < MaxStops
         /\ procs' = (procs \ {c}) \cup
                     {[c EXCEPT !.st = "stopped", !.reported = FALSE,
                                !.stops = c.stops + 1]}
    /\ UNCHANGED <<sawChar, lastcd, lineSt, argsSt, config, input, rpos, rl, tk,
                   entry, pc, line, args, status, cwd, eof, pid, wstatus, out,
                   err, heap, exitCode, iter, disp, waits>>

(* The stopped program is continued *)
ChildCont ==
    /\ \E c \in procs :
         /\ c.at = "program" /\ c.st = "stopped"
         /\ procs' = (procs \ {c}) \cup {[c EXCEPT !.st = "running"]}
    /\ UNCHANGED <<sawChar, lastcd, lineSt, argsSt, config, input, rpos, rl, tk,
                   entry, pc, line, args, status, cwd, eof, pid, wstatus, out,
                   err, heap, exitCode, iter, disp, waits>>

(* The launched program exits, with a zero or a non-zero status *)
ChildExit ==
    /\ \E c \in procs, code \in {0, 1, 2} :
         /\ c.at = "program" /\ c.st = "running"
         /\ procs' = (procs \ {c}) \cup {[c EXCEPT !.st = "exited", !.code = code]}
    /\ UNCHANGED <<sawChar, lastcd, lineSt, argsSt, config, input, rpos, rl, tk,
                   entry, pc, line, args, status, cwd, eof, pid, wstatus, out,
                   err, heap, exitCode, iter, disp, waits>>

(* The launched program is killed by a signal, running or stopped *)
ChildKill ==
    /\ \E c \in procs :
         /\ c.at = "program" /\ c.st \in {"running", "stopped"}
         /\ procs' = (procs \ {c}) \cup {[c EXCEPT !.st = "signaled", !.code = 9]}
    /\ UNCHANGED <<sawChar, lastcd, lineSt, argsSt, config, input, rpos, rl, tk,
                   entry, pc, line, args, status, cwd, eof, pid, wstatus, out,
                   err, heap, exitCode, iter, disp, waits>>

----------------------------------------------------------------------------
(* The end of the loop body and of main *)

(* a free that leaves the buffer allocated *)
release_nothing(st) == st

(* free(p) on a buffer in state st *)
release(st) == IF st = "live" THEN "freed" ELSE "double free"

(* free(line); free(args); } while (status); *)
EndIteration ==
    /\ pc = "free" /\ Running
    /\ heap' = heap - 2
    /\ lineSt' = release(lineSt)
    /\ argsSt' = release(argsSt)
    /\ line' = << >>
    /\ args' = << >>
    /\ pid' = 0
    /\ wstatus' = NoStatus
    /\ pc' = IF status # 0 THEN "prompt" ELSE "stopped"
    /\ UNCHANGED <<sawChar, lastcd, config, input, rpos, rl, tk,
                   entry, status, cwd, eof, procs, out, err,
                   exitCode, iter, disp, waits>>

(* noosh_loop has returned: return EXIT_SUCCESS; *)
MainReturn ==
    /\ pc = "stopped" /\ Running
    /\ exitCode' = EXIT_SUCCESS
    /\ pc' = "exited"
    /\ UNCHANGED <<sawChar, lastcd, lineSt, argsSt, config, input, rpos, rl, tk,
                   entry, line, args, status, cwd, eof, procs, pid, wstatus,
                   out, err, heap, iter, disp, waits>>

Next ==
    \/ ReadConfig
    \/ Prompt
    \/ ReadLine
    \/ SplitLine
    \/ ExecuteEmpty
    \/ ExecuteCd
    \/ ExecutePwd
    \/ ExecuteHelp
    \/ ExecuteExit
    \/ Launch
    \/ WaitPid
    \/ ChildExec
    \/ ChildChdir
    \/ ChildStop
    \/ ChildCont
    \/ ChildExit
    \/ ChildKill
    \/ EndIteration
    \/ MainReturn

Spec == Init /\ [][Next]_vars

----------------------------------------------------------------------------
(* One loop body on an arbitrary typed line: the shell has printed its     *)
(* first prompt and noosh_read_line has returned some line over Alphabet.  *)

MaxLen == 4

Alphabet == {SP, TAB, CR, BEL, "l", "s"}

AnyLines == UNION { [1..n -> Alphabet] : n \in 0..MaxLen }

InitOneLine ==
    /\ entry \in {"main", "noosh"}
    /\ pc = "split"
    /\ line \in AnyLines
    /\ args = << >>
    /\ status = 1
    /\ cwd \in Dirs
    /\ eof \in BOOLEAN
    /\ procs = {}
    /\ pid = 0
    /\ wstatus = NoStatus
    /\ out = <<Rec("prompt", IF entry = "main" THEN <<">", SP>> ELSE getcwd(cwd))>>
    /\ err = << >>
    /\ heap = IF entry = "main" THEN 1 ELSE 2
    /\ exitCode = EXIT_NONE
    /\ iter = 1
    /\ disp = NoDisp
    /\ waits = 0
    /\ sawChar = (line # << >> \/ ~eof)
    /\ lastcd = NoCd
    /\ lineSt = "live"
    /\ argsSt = "none"
    /\ config = IF entry = "main" THEN NoConfig ELSE DefaultConfig
    /\ input = << >>
    /\ rpos = 1
    /\ rl = NoBuf
    /\ tk = NoBuf

NextOneLine ==
    \/ SplitLine
    \/ ExecuteEmpty
    \/ Launch
    \/ WaitPid
    \/ ChildExec
    \/ ChildChdir
    \/ ChildStop
    \/ ChildCont
    \/ ChildExit
    \/ ChildKill
    \/ EndIteration

SpecOneLine == InitOneLine /\ [][NextOneLine]_vars

----------------------------------------------------------------------------
(* The loop on a standard input that is fixed before the shell starts, as  *)
(* with `noosh < script`: every getchar takes the next character of input. *)

(* The command lines a script is made of *)
ScriptLines ==
    { << >>, s_help, s_exit, s_ls, s_nope, s_pwd,
      s_cd \o <<SP>> \o <<"a">>,
      <<TAB>> \o s_exit \o <<SP>> \o s_ls }

RECURSIVE JoinLines(_)
JoinLines(ls) ==
    IF ls = << >> THEN << >> ELSE Head(ls) \o <<NL>> \o JoinLines(Tail(ls))

(* Scripts of up to MaxIter lines; the last newline may be missing. *)
Scripts ==
    LET whole == { JoinLines(ls) : ls \in UNION { [1..n -> ScriptLines] : n \in 0..MaxIter } }
    IN  whole \cup { SubSeq(s, 1, Len(s) - 1) : s \in whole \ { << >> } }

InitStdin ==
    /\ entry \in {"main", "noosh"}
    /\ pc = IF entry = "main" THEN "prompt" ELSE "config"
    /\ line = << >>
    /\ args = << >>
    /\ status = 1
    /\ cwd = << >>
    /\ eof = FALSE
    /\ procs = {}
    /\ pid = 0
    /\ wstatus = NoStatus
    /\ out = << >>
    /\ err = << >>
    /\ heap = 0
    /\ exitCode = EXIT_NONE
    /\ iter = 0
    /\ disp = NoDisp
    /\ waits = 0
    /\ sawChar = FALSE
    /\ lastcd = NoCd
    /\ lineSt = "none"
    /\ argsSt = "none"
    /\ config = NoConfig
    /\ input \in Scripts
    /\ rpos = 1
    /\ rl = NoBuf
    /\ tk = NoBuf

(* line = noosh_read_line() on the fixed input: the characters from rpos   *)
(* up to the next newline, which is consumed, or up to the end.            *)
ReadStdin ==
    /\ pc = "read" /\ Running
    /\ \E mallocOk \in BOOLEAN :
         IF ~mallocOk
         THEN /\ err' = Append(err, Rec("alloc", << >>))
              /\ pc' = "exited" /\ exitCode' = EXIT_FAILURE
              /\ UNCHANGED <<line, eof, heap, sawChar, lineSt, rpos>>
         ELSE LET r == noosh_read_line(SubSeq(input, rpos, Len(input)))
              IN  /\ line' = r.line
                  /\ eof' = r.eof
                  /\ rpos' = rpos + Len(r.line) + (IF r.eof THEN 0 ELSE 1)
                  /\ sawChar' = (sawChar \/ rpos <= Len(input))
                  /\ heap' = heap + 1
                  /\ lineSt' = "live"
                  /\ pc' = "split"
                  /\ UNCHANGED <<err, exitCode>>
    /\ UNCHANGED <<lastcd, argsSt, config, input, rl, tk,
                   entry, args, status, cwd, procs, pid, wstatus, out,
                   iter, disp, waits>>

(* The steps of the shell process itself *)
ShellStep ==
    \/ ReadConfig
    \/ Prompt
    \/ ReadStdin
    \/ SplitLine
    \/ ExecuteEmpty
    \/ ExecuteCd
    \/ ExecutePwd
    \/ ExecuteHelp
    \/ ExecuteExit
    \/ Launch
    \/ WaitPid
    \/ EndIteration
    \/ MainReturn

NextStdin ==
    \/ ShellStep
    \/ ChildExec
    \/ ChildChdir
    \/ ChildStop
    \/ ChildCont
    \/ ChildExit
    \/ ChildKill

(* The shell and the child before its execvp are running processes that    *)
(* the scheduler keeps running; every launched program eventually exits or *)
(* is killed.                                                              *)
SpecStdin ==
    /\ InitStdin /\ [][NextStdin]_vars
    /\ WF_vars(ShellStep)
    /\ WF_vars(ChildExec)
    /\ WF_vars(ChildExit \/ ChildKill)

----------------------------------------------------------------------------
(* The growable buffers of noosh_read_line and noosh_split_line, one loop  *)
(* turn at a time.  Only lengths matter here: rl and tk hold bufsize and   *)
(* position of the function and, in widx and wcap, the index of its last   *)
(* buffer write with the capacity the buffer had at that write (widx -1:   *)
(* nothing written yet).  The Line read has rl.position characters.        *)

MaxChars == 2100    \* characters typed on one line
MaxToks == 200      \* tokens taken from one line

NOOSH_RL_BUFSIZE == 1024

NOOSH_TOK_BUFSIZE == 64

(* a test that lets position run one past the capacity *)
exceeded_late(position, bufsize) == position > bufsize

(* if (position >= bufsize) *)
exceeded(position, bufsize) == position >= bufsize

(* buffer[position] = ...; position++; and the growth that may follow *)
store(b, step, reallocOk) ==
    LET position == b.position + 1
    IN  [buf   |-> [bufsize  |-> IF exceeded(position, b.bufsize) /\ reallocOk
                                 THEN b.bufsize + step ELSE b.bufsize,
                    position |-> position,
                    widx     |-> b.position,
                    wcap     |-> b.bufsize],
         fatal |-> exceeded(position, b.bufsize) /\ ~reallocOk]

(* buffer[position] = terminator; return buffer; *)
terminate(b) == [b EXCEPT !.widx = b.position, !.wcap = b.bufsize]

(* bufsize = SIZE, position = 0, buffer = malloc(...) *)
fresh(size) == [bufsize |-> size, position |-> 0, widx |-> -1, wcap |-> size]

InitBuffers ==
    /\ entry \in {"main", "noosh"}
    /\ pc = "rl"
    /\ line = << >>
    /\ args = << >>
    /\ status = 1
    /\ cwd = << >>
    /\ eof = FALSE
    /\ procs = {}
    /\ pid = 0
    /\ wstatus = NoStatus
    /\ out = <<Rec("prompt", IF entry = "main" THEN <<">", SP>> ELSE getcwd(cwd))>>
    /\ err = << >>
    /\ heap = IF entry = "main" THEN 1 ELSE 2
    /\ exitCode = EXIT_NONE
    /\ iter = 1
    /\ disp = NoDisp
    /\ waits = 0
    /\ sawChar = FALSE
    /\ lastcd = NoCd
    /\ lineSt = "live"
    /\ argsSt = "none"
    /\ config = IF entry = "main" THEN NoConfig ELSE DefaultConfig
    /\ input = << >>
    /\ rpos = 1
    /\ rl = fresh(NOOSH_RL_BUFSIZE)
    /\ tk = NoBuf

(* getchar delivered a character that is neither EOF nor '\n' *)
RL_Store ==
    /\ pc = "rl" /\ Running
    /\ rl.position < MaxChars
    /\ \E reallocOk \in BOOLEAN :
         LET r == store(rl, NOOSH_RL_BUFSIZE, reallocOk)
         IN  /\ rl' = r.buf
             /\ IF r.fatal
                THEN /\ err' = Append(err, Rec("alloc", << >>))
                     /\ pc' = "exited" /\ exitCode' = EXIT_FAILURE
                ELSE UNCHANGED <<err, pc, exitCode>>
    /\ UNCHANGED <<tk, heap, lineSt>>
    /\ UNCHANGED <<sawChar, lastcd, argsSt, config, input, rpos,
                   entry, line, args, status, cwd, eof, procs, pid, wstatus, out,
                   iter, disp, waits>>

(* getchar delivered EOF or '\n' *)
RL_Terminate ==
    /\ pc = "rl" /\ Running
    /\ rl' = terminate(rl)
    /\ pc' = "rl_done"
    /\ UNCHANGED <<tk, heap, lineSt, err, exitCode>>
    /\ UNCHANGED <<sawChar, lastcd, argsSt, config, input, rpos,
                   entry, line, args, status, cwd, eof, procs, pid, wstatus, out,
                   iter, disp, waits>>

(* noosh_split_line: the malloc of the token array *)
TK_Begin ==
    /\ pc = "rl_done" /\ Running
    /\ \E mallocOk \in BOOLEAN :
         IF mallocOk
         THEN /\ tk' = fresh(NOOSH_TOK_BUFSIZE)
              /\ heap' = heap + 1
              /\ pc' = "tk"
              /\ UNCHANGED <<err, exitCode>>
         ELSE /\ err' = Append(err, Rec("alloc", << >>))
              /\ pc' = "exited" /\ exitCode' = EXIT_FAILURE
              /\ UNCHANGED <<tk, heap>>
    /\ UNCHANGED <<rl, lineSt>>
    /\ UNCHANGED <<sawChar, lastcd, argsSt, config, input, rpos,
                   entry, line, args, status, cwd, eof, procs, pid, wstatus, out,
                   iter, disp, waits>>

(* strtok returned one more token: a Line of n characters holds at most    *)
(* (n + 1) / 2 of them                                                     *)
TK_Store ==
    /\ pc = "tk" /\ Running
    /\ tk.position < MaxToks
    /\ 2 * (tk.position + 1) - 1 <= rl.position
    /\ \E reallocOk \in BOOLEAN :
         LET r == store(tk, NOOSH_TOK_BUFSIZE, reallocOk)
         IN  /\ tk' = r.buf
             /\ IF r.fatal
                THEN /\ err' = Append(err, Rec("alloc", << >>))
                     /\ pc' = "exited" /\ exitCode' = EXIT_FAILURE
                ELSE UNCHANGED <<err, pc, exitCode>>
    /\ UNCHANGED <<rl, heap, lineSt>>
    /\ UNCHANGED <<sawChar, lastcd, argsSt, config, input, rpos,
                   entry, line, args, status, cwd, eof, procs, pid, wstatus, out,
                   iter, disp, waits>>

(* strtok returned NULL: tokens[position] = NULL; return tokens; *)
TK_Terminate ==
    /\ pc = "tk" /\ Running
    /\ tk' = terminate(tk)
    /\ pc' = "tk_done"
    /\ UNCHANGED <<rl, heap, lineSt, err, exitCode>>
    /\ UNCHANGED <<sawChar, lastcd, argsSt, config, input, rpos,
                   entry, line, args, status, cwd, eof, procs, pid, wstatus, out,
                   iter, disp, waits>>

NextBuffers ==
    \/ RL_Store
    \/ RL_Terminate
    \/ TK_Begin
    \/ TK_Store
    \/ TK_Terminate

SpecBuffers == InitBuffers /\ [][NextBuffers]_vars

----------------------------------------------------------------------------
(* Shape of the state *)

TypeOK ==
    /\ entry \in {"main", "noosh"}
    /\ pc \in {"config", "prompt", "read", "split", "execute", "wait", "free",
              "stopped", "exited", "rl", "rl_done", "tk", "tk_done"}
    /\ lineSt \in {"none", "live", "freed"}
    /\ argsSt \in {"none", "live", "freed"}
    /\ status \in {0, 1}
    /\ cwd \in Dirs
    /\ eof \in BOOLEAN
    /\ exitCode \in {EXIT_NONE, EXIT_SUCCESS, EXIT_FAILURE, EXIT_SEGV}
    /\ iter \in 0..MaxIter
    /\ heap \in Nat
    /\ \A c \in procs : c.at \in {"exec", "program"}


----------------------------------------------------------------------------
(* Vocabulary of the properties *)

NumPrompts == Cardinality({i \in DOMAIN out : out[i].k = "prompt"})

LastErr == IF err = << >> THEN Rec("none", << >>) ELSE err[Len(err)]

BuiltinNames == {s_cd, s_pwd, s_help, s_exit}

Delimiters == {" ", "\t", "\r", "\n", BEL}

(* the loop has left RUNNING *)
Stopped == pc = "stopped" \/ (pc = "exited" /\ exitCode = EXIT_SUCCESS)

(* noosh_execute has returned in this iteration and the buffers are still live *)
Returned == pc = "free"

(* The maximal runs of non-delimiter characters of a line, as pairs of the *)
(* first and the last index of the run.                                    *)
MaximalRuns(l) ==
    { r \in (DOMAIN l) \X (DOMAIN l) :
        /\ r[1] <= r[2]
        /\ \A j \in r[1]..r[2] : l[j] \notin Delimiters
        /\ (r[1] = 1 \/ l[r[1] - 1] \in Delimiters)
        /\ (r[2] = Len(l) \/ l[r[2] + 1] \in Delimiters) }

(* The runs from left to right, each as the characters it holds *)
RunsInOrder(l) ==
    LET R == MaximalRuns(l)
        nth(n) == CHOOSE r \in R : Cardinality({q \in R : q[1] < r[1]}) = n - 1
    IN  [n \in 1..Cardinality(R) |-> SubSeq(l, nth(n)[1], nth(n)[2])]

(* The k-th line of a stream: what lies between newline k-1 and newline k  *)
LineOf(s, k) ==
    LET P == { j \in DOMAIN s :
                 /\ s[j] # "\n"
                 /\ Cardinality({m \in 1..j : s[m] = "\n"}) = k - 1 }
    IN  IF P = {} THEN << >>
        ELSE SubSeq(s, CHOOSE j \in P : \A m \in P : j <= m,
                       CHOOSE j \in P : \A m \in P : j >= m)

(* The number of the first line whose token 0 is `exit`, 0 without one *)
FirstExit(s) ==
    LET K == { k \in 1..(Len(s) + 1) :
                 /\ RunsInOrder(LineOf(s, k)) # << >>
                 /\ RunsInOrder(LineOf(s, k))[1] = <<"e", "x", "i", "t">> }
    IN  IF K = {} THEN 0 ELSE CHOOSE k \in K : \A m \in K : k <= m

(* the shell process has died of an allocation or getcwd failure *)
FatalError == exitCode = EXIT_FAILURE

----------------------------------------------------------------------------
(* C1: when standard input is at end-of-stream before any character has    *)
(* been read, the loop stops after emitting the prompt once: no second     *)
(* prompt is ever emitted and nothing is dispatched.                       *)
C1_EmptyInputStops ==
    (eof /\ ~sawChar) =>
        /\ NumPrompts <= 1
        /\ disp.kind \in {"none", "empty"}

----------------------------------------------------------------------------
(* C2: token 0 `exit`, with any following tokens, yields "terminate" and   *)
(* the loop performs no further iteration; token 0 `cd`, `pwd` or `help`   *)
(* yields "continue" when the handler returns; the loop leaves RUNNING     *)
(* only on an `exit` dispatch.                                             *)
C2_ExitOnlyTerminates ==
    /\ [](/\ (Returned /\ args[1] = s_exit) => status = 0
          /\ (Returned /\ args[1] \in {s_cd, s_pwd, s_help}) => status = 1
          /\ Stopped => (disp.fn = "noosh_exit" /\ disp.argv[1] = s_exit))
    /\ [][/\ (Returned /\ status = 0) => pc' = "stopped"
          /\ Stopped => (Stopped' /\ out' = out /\ iter' = iter /\ disp' = disp
                         /\ procs' = procs /\ sawChar' = sawChar)]_vars

C2_Witness ==
    /\ pc = "exited" /\ exitCode = EXIT_SUCCESS
    /\ disp.argv = <<s_exit, s_ls, NULL>>

----------------------------------------------------------------------------
(* C3: a non-empty token sequence whose token 0 is no builtin name is      *)
(* handed to the launcher, the child's argument vector is exactly that     *)
(* sequence, and the outcome is "continue" whatever the child's status.    *)
C3_LaunchPassesAllTokens ==
    (pc \in {"wait", "free"} /\ args[1] # NULL /\ args[1] \notin BuiltinNames) =>
        /\ disp.kind = "launch"
        /\ Cardinality(procs) <= 1
        /\ \A c \in procs : c.argv = args /\ c.argv[Len(c.argv)] = NULL
        /\ (pc = "wait") => (procs # {})
        /\ (pc = "free") => (status = 1 /\ procs = {})

C3_Witness ==
    /\ pc = "free" /\ disp.kind = "launch"
    /\ disp.argv = <<s_ls, s_exit, NULL>>
    /\ wstatus.kind = "signaled"


----------------------------------------------------------------------------
(* C4: a line that is empty or holds only delimiters tokenizes to the bare *)
(* terminator; no builtin runs, no child is launched and the outcome is    *)
(* "continue".                                                             *)
OnlyDelimiters(l) == \A i \in DOMAIN l : l[i] \in Delimiters

C4_BlankLineIsNoOp ==
    (pc \in {"execute", "wait", "free"} /\ OnlyDelimiters(line)) =>
        /\ args[1] = NULL /\ Len(args) = 1
        /\ pc # "wait"
        /\ procs = {}
        /\ err = << >>
        /\ (pc = "free") => (disp.kind = "empty" /\ status = 1)

C4_Witness ==
    /\ pc = "free"
    /\ line = <<BEL, CR, TAB>>
    /\ disp.kind = "empty"

----------------------------------------------------------------------------
(* C5: the launcher returns only after waitpid has reported the child as   *)
(* exited or killed by a signal; after every report of a stopped child it  *)
(* waits again, however many times the child stops and continues.          *)
C5_WaitsThroughStops ==
    /\ (pc = "wait" /\ waits > 0) => wstatus.kind = "stopped"
    /\ (pc = "free" /\ disp.kind = "launch" /\ pid > 0) =>
           /\ wstatus.kind \in {"exited", "signaled"}
           /\ \A c \in procs : c.pid # pid

C5_Witness ==
    /\ pc = "free" /\ disp.kind = "launch"
    /\ waits >= 3
    /\ wstatus.kind = "exited"

----------------------------------------------------------------------------
(* C6: at most one child exists unreaped at any time, and while one exists *)
(* the shell sits in the launcher's wait: it prompts, reads and dispatches *)
(* nothing until the child's termination has been observed.                *)
C6_OneChildShellBlocked ==
    /\ Cardinality(procs) <= 1
    /\ \A c \in procs : pc = "wait" /\ c.pid = pid

C6_Witness ==
    /\ pc = "wait"
    /\ iter >= 2
    /\ \E c \in procs : c.st = "stopped" /\ c.reported

----------------------------------------------------------------------------
(* C7: when execvp fails the child reports the error and exits non-zero    *)
(* without returning into the loop; the parent's single wait completes     *)
(* with outcome "continue" and the shell starts its next iteration.        *)
C7_ExecFailureStaysInChild ==
    /\ [](/\ \A c \in procs :
               /\ c.at \in {"exec", "program"}
               /\ (c.argv[1] \notin Programs) =>
                      /\ c.at = "exec"
                      /\ \/ c.st = "running"
                         \/ /\ c.st = "exited" /\ c.code # 0
                            /\ LastErr = Rec("perror", c.argv[1])
          /\ (pc = "free" /\ pid > 0 /\ disp.argv[1] \notin Programs) =>
                 /\ wstatus.kind = "exited" /\ wstatus.val # 0
                 /\ waits = 1
                 /\ status = 1
                 /\ procs = {}
                 /\ exitCode = EXIT_NONE)
    /\ [][(pc = "free" /\ pid > 0 /\ disp.argv[1] \notin Programs)
              => pc' = "prompt"]_vars

C7_Witness ==
    /\ pc = "exited" /\ exitCode = EXIT_SUCCESS
    /\ disp.fn = "noosh_exit"
    /\ err = <<Rec("perror", s_nope)>>
    /\ iter = 2

----------------------------------------------------------------------------
(* C8: when fork fails the launcher reports it on the error stream, no     *)
(* child exists, no wait is performed, the outcome is "continue" and the   *)
(* loop goes on to its next iteration.                                     *)
C8_ForkFailureContinues ==
    /\ []((pid = -1) =>
             /\ pc = "free"
             /\ disp.kind = "launch"
             /\ LastErr.k = "perror"
             /\ procs = {}
             /\ waits = 0 /\ wstatus = NoStatus
             /\ status = 1
             /\ exitCode = EXIT_NONE)
    /\ [][(pid = -1) => (pc' = "prompt" /\ out' = out /\ err' = err)]_vars

C8_Witness ==
    /\ pid = -1
    /\ pc = "free"
    /\ Len(err) = 1

----------------------------------------------------------------------------
(* What `cd <arg>` from directory w leads to, written out for the          *)
(* directory tree /, /a, /a/b: the absolute path, or << >> when the        *)
(* directory does not exist.                                               *)
ExpectedPwd(w, arg) ==
    CASE arg = <<"/", "a", "/", "b">>                   -> <<"/", "a", "/", "b">>
      [] arg = <<"a">> /\ w = << >>                      -> <<"/", "a">>
      [] arg = <<"b">> /\ w = << <<"a">> >>              -> <<"/", "a", "/", "b">>
      [] arg = <<".", ".">> /\ w = << <<"a">>, <<"b">> >> -> <<"/", "a">>
      [] arg = <<".", ".">> /\ w = << <<"a">> >>         -> <<"/">>
      [] arg = <<".", ".">> /\ w = << >>                 -> <<"/">>
      [] OTHER                                           -> << >>

(* C9: `cd` without token 1 and `cd <path>` whose chdir fails leave the    *)
(* working directory unchanged, write one diagnostic to the error stream   *)
(* and nothing to standard output, and return "continue".                  *)
C9_FailedCdChangesNothing ==
    [][(/\ pc = "execute" /\ args[1] = s_cd
        /\ (args[2] = NULL \/ ExpectedPwd(cwd, args[2]) = << >>))
       => /\ cwd' = cwd
          /\ out' = out
          /\ Len(err') = Len(err) + 1
          /\ err'[Len(err')] = Rec(IF args[2] = NULL THEN "usage" ELSE "perror", s_cd)
          /\ SubSeq(err', 1, Len(err)) = err
          /\ status' = 1
          /\ pc' = "free"
          /\ exitCode' = EXIT_NONE]_vars

C9_Witness ==
    /\ pc = "prompt"
    /\ err = <<Rec("usage", s_cd), Rec("perror", s_cd)>>
    /\ cwd = << <<"a">> >>
    /\ iter = 2

----------------------------------------------------------------------------
(* C10 as claimed: every `pwd` run after a successful `cd <dir>` from W,   *)
(* up to the next successful `cd`, prints <dir> resolved against W.        *)
PwdAfterCd == pc = "execute" /\ args[1] = s_pwd /\ lastcd.set

ResolvedLine == Rec("pwd", ExpectedPwd(lastcd.w, lastcd.arg))

C10_PwdAlwaysPrintsResolved ==
    [][PwdAfterCd => out' = Append(out, ResolvedLine)]_vars

(* C10 amended: such a `pwd` prints <dir> resolved against W whenever it   *)
(* obtains the working directory; when the allocation or getcwd fails it   *)
(* prints nothing and the shell process exits with a failure code.         *)
C10_PwdPrintsResolvedOrDies ==
    [][PwdAfterCd =>
          \/ /\ out' = Append(out, ResolvedLine)
             /\ exitCode' = EXIT_NONE /\ status' = 1 /\ pc' = "free"
          \/ /\ out' = out
             /\ exitCode' = EXIT_FAILURE
             /\ Len(err') = Len(err) + 1]_vars

C10_Witness ==
    /\ pc = "free" /\ disp.fn = "noosh_pwd"
    /\ lastcd = [set |-> TRUE, w |-> << <<"a">> >>, arg |-> <<"b">>]
    /\ iter = 3
    /\ Len(out) >= 3
    /\ out[Len(out)] = Rec("pwd", <<"/", "a", "/", "b">>)
    /\ out[Len(out) - 2] = out[Len(out)]


----------------------------------------------------------------------------
(* C11: the shell process exits with code 0 when it ends through `exit`,   *)
(* and with a non-zero code only after an allocation has failed or the     *)
(* `pwd` builtin could not resolve the working directory.                  *)
C11_NonZeroOnlyOnAllocOrPwd ==
    /\ (pc = "exited" /\ disp.fn = "noosh_exit") => exitCode = EXIT_SUCCESS
    /\ (exitCode = EXIT_FAILURE) =>
           \/ LastErr.k = "alloc"
           \/ disp.fn = "noosh_pwd" /\ LastErr = Rec("perror", s_pwd)

----------------------------------------------------------------------------
(* C12: on an input whose k-th line is the first with token 0 `exit`, when *)
(* every launched child terminates and no allocation or working-directory  *)
(* resolution fails, the shell eventually stops and exits with code 0,     *)
(* iteration i having dispatched line i, once, for i = 1..k and no line    *)
(* after the k-th; `help` then `exit` prints the banner with cd, pwd,      *)
(* help, exit in that order and exits 0.                                   *)
C12_ExitLineEndsShell ==
    /\ []((FirstExit(input) > 0) =>
             /\ iter <= FirstExit(input)
             /\ (disp # NoDisp) =>
                    disp.argv = Append(RunsInOrder(LineOf(input, iter)), NULL)
             /\ Stopped => (iter = FirstExit(input) /\ disp.fn = "noosh_exit")
             /\ (Stopped /\ input = s_help \o <<NL>> \o s_exit \o <<NL>>) =>
                    /\ exitCode \in {EXIT_NONE, EXIT_SUCCESS}
                    /\ \E i \in DOMAIN out :
                         /\ out[i] = Rec("help", <<s_cd, s_pwd, s_help, s_exit>>)
                         /\ \A j \in DOMAIN out : out[j].k = "help" => j = i)
    /\ [][/\ iter' \in {iter, iter + 1}
          /\ (disp # NoDisp) => (disp' = disp \/ (disp' = NoDisp /\ iter' = iter + 1))]_vars
    /\ (FirstExit(input) > 0) ~> ((pc = "exited" /\ exitCode = EXIT_SUCCESS) \/ FatalError)

----------------------------------------------------------------------------
(* The tokens of a token array joined with single spaces *)
RECURSIVE JoinSpaces(_)
JoinSpaces(a) ==
    IF a = << >> \/ Head(a) = NULL THEN << >>
    ELSE IF Len(a) = 1 \/ a[2] = NULL THEN Head(a)
         ELSE Head(a) \o <<" ">> \o JoinSpaces(Tail(a))

(* C13: tokenization is idempotent under re-splitting: the tokens of a     *)
(* line, joined with single spaces and split again, are the same tokens in *)
(* the same number and order.                                              *)
C13_ResplitIsIdentity ==
    (pc \in {"execute", "wait", "free"}) =>
        /\ noosh_split_line(JoinSpaces(args)) = args
        /\ noosh_split_line(JoinSpaces(noosh_split_line(line))) = noosh_split_line(line)

C13_Witness ==
    /\ pc = "execute"
    /\ line = <<"l", BEL, "s">>
    /\ args = << <<"l">>, <<"s">>, NULL >>
    /\ JoinSpaces(args) = <<"l", " ", "s">>

----------------------------------------------------------------------------
(* the shell is between two iteration bodies, or past the last one *)
OutsideBody == pc \in {"config", "prompt", "stopped", "exited"}

ReleaseOrder ==
    /\ [](/\ lineSt # "double free" /\ argsSt # "double free"
          /\ (pc \in {"execute", "wait", "free"}) => (lineSt = "live" /\ argsSt = "live")
          /\ (pc = "split") => lineSt = "live")
    /\ [][/\ (lineSt = "live" /\ lineSt' # "live") => (pc = "free" /\ argsSt' = "freed")
          /\ (argsSt = "live" /\ argsSt' # "live") => (pc = "free" /\ lineSt' = "freed")
          /\ (pc = "free") => (lineSt' = "freed" /\ argsSt' = "freed")]_vars

(* C14 as claimed: in every iteration, the terminating one included, the   *)
(* line and the token array allocated in it are each released exactly once *)
(* and only after noosh_execute has returned: outside the loop body        *)
(* neither is left allocated.                                              *)
C14_ReleasedInEveryIteration ==
    /\ ReleaseOrder
    /\ [](OutsideBody => (lineSt # "live" /\ argsSt # "live"))

(* C14 amended: so it is in every iteration whose body runs to its end;    *)
(* a body cut short by exit(EXIT_FAILURE) ends the process with what it    *)
(* had allocated unreleased.                                               *)
C14_ReleasedWhenBodyEnds ==
    /\ ReleaseOrder
    /\ [](OutsideBody =>
             \/ lineSt # "live" /\ argsSt # "live"
             \/ pc = "exited" /\ FatalError /\ LastErr.k \in {"alloc", "perror"})

C14_Witness ==
    /\ pc = "stopped"
    /\ iter = 2
    /\ lineSt = "freed" /\ argsSt = "freed"
    /\ disp.fn = "noosh_exit"

----------------------------------------------------------------------------
(* The handler registered for a builtin name, written out *)
HandlerOf(name) ==
    CASE name = <<"c", "d">>           -> "noosh_cd"
      [] name = <<"p", "w", "d">>      -> "noosh_pwd"
      [] name = <<"h", "e", "l", "p">> -> "noosh_help"
      [] name = <<"e", "x", "i", "t">> -> "noosh_exit"
      [] OTHER                         -> "noosh_launch"

(* C15: dispatch resolves a builtin exactly when token 0 equals, character *)
(* for character, one of cd, pwd, help, exit; it then runs the handler     *)
(* registered for that name and spawns no child.  Any other non-empty      *)
(* token array, one whose token 0 differs in case or that holds a builtin  *)
(* name only after token 0 included, goes to the launcher.                 *)
C15_BuiltinIffExactToken0 ==
    /\ []((disp # NoDisp /\ disp.kind # "empty") =>
             /\ disp.argv[1] # NULL
             /\ disp.fn = HandlerOf(disp.argv[1])
             /\ (disp.kind = "builtin") <=> (disp.argv[1] \in BuiltinNames)
             /\ (disp.kind = "launch") <=> (disp.argv[1] \notin BuiltinNames)
             /\ (disp.kind = "builtin") => (procs = {} /\ pid = 0 /\ pc # "wait"))
    /\ [][(pc = "execute" /\ args[1] # NULL) =>
             /\ disp'.argv = args
             /\ (args[1] = s_exit) => status' = 0
             /\ (args[1] = s_help) => out' = Append(out, Rec("help", builtin_str))
             /\ (args[1] \in BuiltinNames) => procs' = {}
             /\ (args[1] \notin BuiltinNames) => (pid' = -1 \/ procs' # {})]_vars

C15_Witness ==
    /\ pc = "wait" /\ iter = 2
    /\ disp.kind = "launch" /\ disp.argv = <<s_Exit, NULL>>
    /\ \E c \in procs : c.argv = <<s_Exit, NULL>>
    /\ out[2] = Rec("help", builtin_str)

----------------------------------------------------------------------------
(* C16: the token array is exactly the maximal runs of non-delimiter       *)
(* characters of the line, from left to right, closed by the terminator    *)
(* right after the last one: no token is empty or holds a delimiter, and   *)
(* leading, trailing and consecutive delimiters yield no token.            *)
C16_TokensAreMaximalRuns ==
    (pc \in {"execute", "wait", "free"}) =>
        /\ args = Append(RunsInOrder(line), NULL)
        /\ Len(args) = Cardinality(MaximalRuns(line)) + 1
        /\ args[Len(args)] = NULL
        /\ \A i \in 1..(Len(args) - 1) :
             /\ args[i] # << >>
             /\ \A j \in DOMAIN args[i] : args[i][j] \notin Delimiters

C16_Witness ==
    /\ pc = "execute"
    /\ line = <<"l", SP, CR, "s">>
    /\ args = << <<"l">>, <<"s">>, NULL >>

----------------------------------------------------------------------------
(* C17: the loop of noosh.c executes as the loop of main.c does: reading   *)
(* the configuration and rendering the prompt, the two steps in which they *)
(* differ, do what the `printf("> ")` of main.c does to the execution: the *)
(* process goes on to read the line, and no outcome, working directory,    *)
(* child or exit code changes.                                             *)
C17_PromptAndConfigAreInert ==
    [][(pc \in {"config", "prompt"}) =>
          /\ pc' \in {"prompt", "read"}
          /\ exitCode' = EXIT_NONE
          /\ status' = status
          /\ cwd' = cwd
          /\ procs' = procs]_vars

----------------------------------------------------------------------------
(* C18: the shell's working directory changes only in the step in which    *)
(* `cd` with an argument succeeds, and then to that argument resolved;     *)
(* every other step, of the shell or of a child, leaves it alone, and a    *)
(* child starts in the working directory the shell has when it forks.      *)
C18_OnlyCdMovesTheShell ==
    /\ [][(cwd' # cwd) =>
             /\ pc = "execute" /\ args[1] = s_cd /\ args[2] # NULL
             /\ ExpectedPwd(cwd, args[2]) # << >>
             /\ getcwd(cwd') = ExpectedPwd(cwd, args[2])]_vars
    /\ [][\A c \in procs' :
             (\A d \in procs : d.pid # c.pid) =>
                 /\ pc = "execute" /\ args[1] \notin BuiltinNames
                 /\ c.cwd = cwd /\ cwd' = cwd]_vars

C18_Witness ==
    /\ pc = "wait"
    /\ lastcd.set /\ cwd = << <<"a">>, <<"b">> >>
    /\ \E c \in procs : c.at = "program" /\ c.cwd = << >>

----------------------------------------------------------------------------
(* the capacity a buffer has when it holds position entries: the initial   *)
(* size plus one growth step for every time position has reached it        *)
CapacityAt(position, step) == step * (1 + position \div step)

(* C19: in the line reader and in the tokenizer every buffer write, the    *)
(* terminator write included, uses an index strictly below the capacity    *)
(* the buffer has at that moment, for every length; the capacity starts at *)
(* the initial size and only grows, by one growth step exactly when the    *)
(* fill position reaches it.                                               *)
C19_WritesBelowCapacity ==
    /\ [](/\ rl.widx < rl.wcap
          /\ (tk # NoBuf) => tk.widx < tk.wcap
          /\ (pc \in {"rl", "rl_done", "tk", "tk_done"}) =>
                 /\ rl.position < rl.bufsize
                 /\ rl.bufsize = CapacityAt(rl.position, 1024)
          /\ (pc \in {"tk", "tk_done"}) =>
                 /\ tk.position < tk.bufsize
                 /\ tk.bufsize = CapacityAt(tk.position, 64)
          /\ (pc \in {"rl_done", "tk", "tk_done"}) => rl.widx = rl.position
          /\ (pc = "tk_done") => tk.widx = tk.position)
    /\ [][/\ rl'.bufsize >= rl.bufsize
          /\ (rl'.bufsize # rl.bufsize) =>
                 (rl'.bufsize = rl.bufsize + 1024 /\ rl'.position = rl.bufsize)
          /\ (pc = "tk") =>
                 /\ tk'.bufsize >= tk.bufsize
                 /\ (tk'.bufsize # tk.bufsize) =>
                        (tk'.bufsize = tk.bufsize + 64 /\ tk'.position = tk.bufsize)]_vars

C19_Witness ==
    /\ pc = "tk_done"
    /\ rl.widx = 2048 /\ rl.wcap = 3072
    /\ tk.widx = 128 /\ tk.wcap = 192

----------------------------------------------------------------------------
(* C20: the shell owns the same number of live heap buffers at the start   *)
(* of every loop iteration, none as at the start of the first: whatever an *)
(* iteration allocated has been released before the next one begins.       *)
C20_NoBufferOutlivesAnIteration ==
    (pc \in {"prompt", "stopped"}) => heap = 0

====
